---- MODULE Spec2Model ----
(***************************************************************************)
(* Model of apispec_webframeworks/tornado.py: TornadoPlugin.path_helper,   *)
(* its generator _operations_from_methods, _extensions_from_handler and    *)
(* the path normalizer tornadopath2openapi.                                *)
(*                                                                         *)
(* Encodings.                                                              *)
(*  - A path or path template is a sequence of tokens.  "/", "?" and "*"   *)
(*    are tokens of their own, "%s" is one substitution slot, "{" and "}"  *)
(*    are the braces f"{{{arg}}}" writes, every other token is a run of    *)
(*    characters holding none of these.                                    *)
(*  - A YAML value (a node) is the set of its <<path, leaf>> pairs: a      *)
(*    scalar s is {<< <<>>, s >>}, a mapping prefixes its key to the       *)
(*    paths of each value.                                                 *)
(*  - A dict is the sequence of its <<key, node>> items in insertion       *)
(*    order.                                                               *)
(*  - A docstring is [kind, yaml]: kind "none" (__doc__ is None), "empty"  *)
(*    (""), "plain" (text with no "---" line) or "yaml" (text with a       *)
(*    "---" line followed by the items in yaml).                           *)
(***************************************************************************)
EXTENDS Integers, Sequences, FiniteSets, TLC

\* Longest template of the exhaustively enumerated templates.
MaxTplLen == 3

-----------------------------------------------------------------------------
(* Sequences and dicts *)

Front(s) == SubSeq(s, 1, Len(s) - 1)

\* list(d.keys())
Keys(d) == [i \in 1..Len(d) |-> d[i][1]]

HasKey(d, k) == \E i \in 1..Len(d) : d[i][1] = k

\* d[k], for a key d has
Lookup(d, k) == d[CHOOSE i \in 1..Len(d) : d[i][1] = k][2]

\* DictSet as dict.setdefault would do it: a key already present keeps its value
DictSet_KeepExisting(d, k, v) == IF HasKey(d, k) THEN d ELSE Append(d, <<k, v>>)

\* d[k] = v: a key already present keeps its position
DictSet(d, k, v) ==
    IF HasKey(d, k)
    THEN [i \in 1..Len(d) |-> IF d[i][1] = k THEN <<k, v>> ELSE d[i]]
    ELSE Append(d, <<k, v>>)

\* d.update(other)
RECURSIVE DictUpdate(_, _)
DictUpdate(d, other) ==
    IF other = <<>> THEN d
    ELSE DictUpdate(DictSet(d, Head(other)[1], Head(other)[2]), Tail(other))

-----------------------------------------------------------------------------
(* YAML values *)

Scalar(s) == {<< <<>>, s >>}

\* the node of a mapping given as a dict
AsNode(d) == UNION {{<< <<d[i][1]>> \o pl[1], pl[2] >> : pl \in d[i][2]} : i \in 1..Len(d)}

\* node[k]
NodeGet(node, k) == {<<Tail(pl[1]), pl[2]>> : pl \in {q \in node : q[1] # <<>> /\ Head(q[1]) = k}}

-----------------------------------------------------------------------------
(* Docstrings and the docstring parser *)

NoDoc == [kind |-> "none", yaml |-> <<>>]
EmptyDoc == [kind |-> "empty", yaml |-> <<>>]
PlainDoc == [kind |-> "plain", yaml |-> <<>>]
YamlDoc(items) == [kind |-> "yaml", yaml |-> items]

\* bool(doc): None and "" are falsy
Truthy(doc) == doc.kind \notin {"none", "empty"}

\* yaml_utils.load_yaml_from_docstring: {} unless a "---" block is present
load_yaml_from_docstring(doc) == IF doc.kind = "yaml" THEN doc.yaml ELSE <<>>

\* yaml_utils.PATH_KEYS, a set: its iteration order is not fixed
PATH_KEYS == {"get", "put", "post", "delete", "options", "head", "patch"}

-----------------------------------------------------------------------------
(* tornadopath2openapi *)

Slot == "%s"

Count(s, c) == Cardinality({i \in 1..Len(s) : s[i] = c})

\* f"{{{arg}}}"
Brace(arg) == <<"{", arg, "}">>

Raise(e) == [err |-> e, path |-> <<>>]
Return(p) == [err |-> "", path |-> p]

\* Format as a lenient substitution: a slot without a parameter stays, surplus
\* parameters are dropped
RECURSIVE Format_Lenient(_, _)
Format_Lenient(tpl, params) ==
    IF tpl = <<>> THEN Return(<<>>)
    ELSE IF Head(tpl) = Slot /\ params # <<>>
         THEN Return(Head(params) \o Format_Lenient(Tail(tpl), Tail(params)).path)
         ELSE Return(<<Head(tpl)>> \o Format_Lenient(Tail(tpl), params).path)

\* path_tpl % params, params a tuple of token sequences
RECURSIVE Format(_, _)
Format(tpl, params) ==
    IF tpl = <<>>
    THEN IF params = <<>> THEN Return(<<>>) ELSE Raise("TypeError")
    ELSE IF Head(tpl) = Slot
         THEN IF params = <<>> THEN Raise("TypeError")
              ELSE LET r == Format(Tail(tpl), Tail(params))
                   IN  IF r.err # "" THEN r ELSE Return(Head(params) \o r.path)
         ELSE LET r == Format(Tail(tpl), params)
              IN  IF r.err # "" THEN r ELSE Return(<<Head(tpl)>> \o r.path)

\* path.rstrip(chars)
RECURSIVE RStrip(_, _)
RStrip(path, chars) ==
    IF path # <<>> /\ path[Len(path)] \in chars
    THEN RStrip(Front(path), chars)
    ELSE path

\* insert pair kv into the index-sorted sequence s, after pairs of equal index
RECURSIVE InsertByIndex(_, _)
InsertByIndex(s, kv) ==
    IF s = <<>> THEN <<kv>>
    ELSE IF kv[2] < Head(s)[2] THEN <<kv>> \o s
         ELSE <<Head(s)>> \o InsertByIndex(Tail(s), kv)

\* sorted(pairs, key=lambda kv: kv[1])
RECURSIVE SortedByIndex(_)
SortedByIndex(pairs) ==
    IF pairs = <<>> THEN <<>>
    ELSE InsertByIndex(SortedByIndex(Front(pairs)), pairs[Len(pairs)])

\* PathArgs without the sort: the names as groupindex enumerates them
PathArgs_Unsorted(urlspec, method) ==
    IF urlspec.groupindex # <<>>
    THEN [i \in 1..Len(urlspec.groupindex) |-> urlspec.groupindex[i][1]]
    ELSE IF method.params = <<>> THEN <<>> ELSE Tail(method.params)

\* PathArgs without the [1:]: the first parameter is kept
PathArgs_KeepFirst(urlspec, method) ==
    IF urlspec.groupindex # <<>>
    THEN LET sorted_pairs == SortedByIndex(urlspec.groupindex)
         IN  [i \in 1..Len(sorted_pairs) |-> sorted_pairs[i][1]]
    ELSE method.params

\* the parameter names: named groups by index, else the signature less its first
PathArgs(urlspec, method) ==
    IF urlspec.groupindex # <<>>
    THEN LET sorted_pairs == SortedByIndex(urlspec.groupindex)
         IN  [i \in 1..Len(sorted_pairs) |-> sorted_pairs[i][1]]
    ELSE IF method.params = <<>> THEN <<>> ELSE Tail(method.params)

\* TrimPath without the count of "/": every path is trimmed
TrimPath_Always(path) == RStrip(path, {"/", "?", "*"})

\* the trailing trim of lines 89-90
TrimPath(path) == IF Count(path, "/") > 1 THEN RStrip(path, {"/", "?", "*"}) ELSE path

\* lines 75-88: the path before the trim, or the error of the % operator
SubstitutedPath(urlspec, method) ==
    IF urlspec.groups # 0
    THEN LET args == PathArgs(urlspec, method)
             params == [i \in 1..Len(args) |-> Brace(args[i])]
         IN  Format(urlspec.path_tpl, params)
    ELSE Return(urlspec.path_tpl)

tornadopath2openapi(urlspec, method) ==
    LET path == SubstitutedPath(urlspec, method)
    IN  IF path.err # "" THEN path ELSE Return(TrimPath(path.path))

-----------------------------------------------------------------------------
(* Methods and handler classes *)

Method(doc, params) == [doc |-> doc, params |-> params]

\* tornado's RequestHandler._unimplemented_method(self, *args, **kwargs)
Unimplemented == Method(NoDoc, <<"self", "args", "kwargs">>)

\* tornado's RequestHandler: every verb of PATH_KEYS is an attribute
RequestHandlerAttrs == [v \in PATH_KEYS |-> Unimplemented]

GreetingData == <<<<"description", Scalar("Get a greeting")>>, <<"tags", Scalar("method")>>>>

PostData == <<<<"tags", Scalar("posts")>>>>

GetMethods ==
    { Unimplemented,
      Method(YamlDoc(GreetingData), <<"self">>),
      Method(YamlDoc(GreetingData), <<"self", "user_id", "post_id">>),
      Method(PlainDoc, <<"self", "user_id">>),
      Method(YamlDoc(<<>>), <<"self">>) }

PostMethods ==
    { Unimplemented,
      Method(EmptyDoc, <<"self">>),
      Method(YamlDoc(PostData), <<"self", "id">>) }

\* the class docstrings: absent, "", plain text, path-level "tags", and a block
\* that itself names the verb get
ClassDocs ==
    { NoDoc, EmptyDoc, PlainDoc,
      YamlDoc(<<<<"tags", Scalar("handler")>>>>),
      YamlDoc(<<<<"x-extension", Scalar("value")>>, <<"get", Scalar("handler")>>>>) }

\* a class body: the verbs it defines over RequestHandler's, or, for a class
\* that is no RequestHandler, the attributes it has at all
HandlerClass(doc, get, post, missing) ==
    [doc |-> doc,
     attrs |-> [v \in PATH_KEYS \ missing |->
                   IF v = "get" THEN get ELSE IF v = "post" THEN post
                   ELSE RequestHandlerAttrs[v]]]

Handlers ==
    { HandlerClass(d, g, p, m) :
        d \in ClassDocs, g \in GetMethods, p \in PostMethods, m \in {{}, {"put"}} }

RequestHandler == HandlerClass(PlainDoc, Unimplemented, Unimplemented, {})

-----------------------------------------------------------------------------
(* Route patterns and URLSpec *)

TplTokens == {"/", "a", "?", "*", Slot}

GroupNames == {"id", "name"}

ParamNames == {"self", "user_id", "post_id"}

Injective(f) == \A i, j \in DOMAIN f : f[i] = f[j] => i = j

\* every enumeration of every name-to-index mapping over n groups
GroupIndexes(n) ==
    UNION { { gi \in [1..k -> GroupNames \X (1..n)] :
                /\ Injective([i \in 1..k |-> gi[i][1]])
                /\ Injective([i \in 1..k |-> gi[i][2]]) } :
            k \in 0..Cardinality(GroupNames) }

ExampleTemplates ==
    { <<"/", "hello">>,
      <<"/", "a", "/", "b", "/", "?">>,
      <<"/", "items", "/", Slot, "/", Slot>>,
      <<"/", "users", "/", Slot, "/", "posts", "/", Slot>> }

Templates == UNION {[1..n -> TplTokens] : n \in 1..MaxTplLen} \cup ExampleTemplates

\* a route pattern as tornado compiles it: the template has one slot per group
Pattern(tpl, groupindex) == [tpl |-> tpl, groupindex |-> groupindex]

Patterns == UNION { {Pattern(t, gi) : gi \in GroupIndexes(Count(t, Slot))} : t \in Templates }

\* URLSpec(pattern, handler): regex.groups, regex.groupindex, _path, handler_class
URLSpec(pattern, handler) ==
    [path_tpl |-> pattern.tpl,
     groups |-> Count(pattern.tpl, Slot),
     groupindex |-> pattern.groupindex,
     handler_class |-> handler]

\* every signature over ParamNames
Signatures ==
    UNION { {s \in [1..n -> ParamNames] : Injective(s)} : n \in 0..Cardinality(ParamNames) }

-----------------------------------------------------------------------------
(* The arguments path_helper is called with *)

\* urlspec=: an URLSpec object, or the raw tuple (pattern, handler)
URLSpecArg(isURLSpec, pattern, handler) ==
    [isURLSpec |-> isURLSpec, pattern |-> pattern, handler |-> handler]

HelperPatterns ==
    { Pattern(<<"/", "hello">>, <<>>),
      Pattern(<<"/", "a", "/", "b", "/", "?">>, <<>>),
      Pattern(<<"/", Slot>>, <<>>),
      Pattern(<<"/", "items", "/", Slot, "/", Slot>>, <<<<"id", 2>>, <<"name", 1>>>>),
      Pattern(<<"/", "users", "/", Slot, "/", "posts", "/", Slot>>, <<>>),
      Pattern(<<"/", Slot, "/", Slot>>, <<<<"id", 2>>>>) }

CallerData == AsNode(<<<<"tags", Scalar("caller")>>>>)

\* operations=: None (the default), or a dict
OperationsArg(isNone, items) == [isNone |-> isNone, items |-> items]

InitialOperations ==
    { OperationsArg(TRUE, <<>>),
      OperationsArg(FALSE, <<>>),
      OperationsArg(FALSE, <<<<"get", CallerData>>>>),
      OperationsArg(FALSE, <<<<"post", CallerData>>>>),
      OperationsArg(FALSE, <<<<"parameters", Scalar("caller")>>>>) }

-----------------------------------------------------------------------------
(* State *)

VARIABLES
    call,            \* the function called: "idle" before any call
    pc,              \* the line the call is at or raised at, or "returned"
    urlspec_arg,     \* path_helper's urlspec argument
    operations_arg,  \* path_helper's operations argument as passed
    urlspec,         \* the URLSpec object (line 116 on)
    handler_class,   \* the handler the generator inspects
    operations,      \* the caller's operations dict, mutated in place
    todo,            \* the verbs of PATH_KEYS the generator has not reached
    yielded,         \* the operations the generator has yielded, in order
    params_method,   \* [name, method]: the attribute line 121 looked up
    method,          \* the method tornadopath2openapi was called with
    result           \* [err, path]: the exception raised or the path returned

vars == <<call, pc, urlspec_arg, operations_arg, urlspec, handler_class, operations,
          todo, yielded, params_method, method, result>>

NoPattern == Pattern(<<>>, <<>>)
NoMethod == Method(NoDoc, <<>>)
NoResult == Return(<<>>)

Init ==
    /\ call = "idle"
    /\ pc = "idle"
    /\ urlspec_arg = URLSpecArg(FALSE, NoPattern, RequestHandler)
    /\ operations_arg = OperationsArg(TRUE, <<>>)
    /\ urlspec = URLSpec(NoPattern, RequestHandler)
    /\ handler_class = RequestHandler
    /\ operations = <<>>
    /\ todo = {}
    /\ yielded = <<>>
    /\ params_method = [name |-> "", method |-> NoMethod]
    /\ method = NoMethod
    /\ result = NoResult

-----------------------------------------------------------------------------
(* Calls *)

\* plugin.path_helper(operations=ops, urlspec=arg)
CallPathHelper ==
    /\ call = "idle"
    /\ \E isURLSpec \in BOOLEAN, pattern \in HelperPatterns, handler \in Handlers,
          ops \in InitialOperations :
         /\ urlspec_arg' = URLSpecArg(isURLSpec, pattern, handler)
         /\ operations_arg' = ops
         /\ operations' = ops.items
    /\ call' = "path_helper"
    /\ pc' = "L113"
    /\ UNCHANGED <<urlspec, handler_class, todo, yielded, params_method, method, result>>

\* TornadoPlugin.tornadopath2openapi(urlspec, method), lines 69-91
CallTornadoPath2OpenAPI ==
    /\ call = "idle"
    /\ \E pattern \in Patterns, sig \in Signatures :
         LET u == URLSpec(pattern, RequestHandler)
             m == Method(NoDoc, sig)
             r == tornadopath2openapi(u, m)
         IN  /\ urlspec' = u
             /\ method' = m
             /\ result' = r
             /\ pc' = IF r.err # "" THEN "L86" ELSE "returned"
    /\ call' = "tornadopath2openapi"
    /\ UNCHANGED <<urlspec_arg, operations_arg, handler_class, operations, todo, yielded,
                   params_method>>

\* iterating TornadoPlugin._operations_from_methods(handler)
CallOperationsFromMethods ==
    /\ call = "idle"
    /\ \E handler \in Handlers : handler_class' = handler
    /\ call' = "_operations_from_methods"
    /\ pc' = "L53"
    /\ todo' = PATH_KEYS
    /\ UNCHANGED <<urlspec_arg, operations_arg, urlspec, operations, yielded,
                   params_method, method, result>>

-----------------------------------------------------------------------------
(* path_helper, lines 113-123 *)

\* the call is running: it has neither returned nor raised
Running == pc # "returned" /\ result.err = ""

\* line 113: assert operations
AssertOperations ==
    /\ call = "path_helper" /\ pc = "L113" /\ Running
    /\ IF operations_arg.isNone \/ operations = <<>>
       THEN result' = Raise("AssertionError") /\ UNCHANGED pc
       ELSE pc' = "L115" /\ UNCHANGED result
    /\ UNCHANGED <<call, urlspec_arg, operations_arg, urlspec, handler_class, operations,
                   todo, yielded, params_method, method>>

\* lines 115-117: build the URLSpec from a tuple, start the generator
CoerceURLSpec ==
    /\ call = "path_helper" /\ pc = "L115" /\ Running
    /\ urlspec' = URLSpec(urlspec_arg.pattern, urlspec_arg.handler)
    /\ handler_class' = urlspec_arg.handler
    /\ todo' = PATH_KEYS
    /\ pc' = "L53"
    /\ UNCHANGED <<call, urlspec_arg, operations_arg, operations, yielded, params_method,
                   method, result>>

\* OperationOf without "if operation_data": every verb is yielded
OperationOf_NoCheck(handler, httpmethod) ==
    IF httpmethod \notin DOMAIN handler.attrs
    THEN [err |-> "AttributeError", yield |-> <<>>]
    ELSE [err |-> "",
          yield |-> <<<<httpmethod,
                        AsNode(load_yaml_from_docstring(handler.attrs[httpmethod].doc))>>>>]

\* lines 54-58, one iteration of the generator's loop: what it yields, as a
\* dict of no or one item, or the error of getattr
OperationOf(handler, httpmethod) ==
    IF httpmethod \notin DOMAIN handler.attrs
    THEN [err |-> "AttributeError", yield |-> <<>>]
    ELSE LET operation_data == load_yaml_from_docstring(handler.attrs[httpmethod].doc)
         IN  [err |-> "",
              yield |-> IF operation_data # <<>>
                        THEN <<<<httpmethod, AsNode(operation_data)>>>>
                        ELSE <<>>]

\* lines 53-58, one iteration for the verb the set yields next; lines 117-118
\* update operations with what it yields
OperationsFromMethodsNext ==
    /\ pc = "L53" /\ Running
    /\ \E httpmethod \in todo :
         LET step == OperationOf(handler_class, httpmethod)
         IN  /\ todo' = todo \ {httpmethod}
             /\ result' = IF step.err # "" THEN Raise(step.err) ELSE result
             /\ yielded' = yielded \o step.yield
             /\ operations' = IF call = "path_helper"
                              THEN DictUpdate(operations, step.yield)
                              ELSE operations
    /\ UNCHANGED <<call, pc, urlspec_arg, operations_arg, urlspec, handler_class,
                   params_method, method>>

\* the generator is exhausted
OperationsFromMethodsDone ==
    /\ pc = "L53" /\ Running
    /\ todo = {}
    /\ pc' = IF call = "path_helper" THEN "L119" ELSE "returned"
    /\ UNCHANGED <<call, urlspec_arg, operations_arg, urlspec, handler_class, operations,
                   todo, yielded, params_method, method, result>>

\* ParamsMethodName taking the last key, list(operations.keys())[-1]
ParamsMethodName_Last(ops) == Keys(ops)[Len(ops)]

\* line 121: list(operations.keys())[0]
ParamsMethodName(ops) == Keys(ops)[1]

\* lines 119-121: the empty check, and the representative method
SelectParamsMethod ==
    /\ call = "path_helper" /\ pc = "L119" /\ Running
    /\ IF operations = <<>>
       THEN result' = Raise("APISpecError") /\ UNCHANGED <<pc, params_method>>
       ELSE LET name == ParamsMethodName(operations)
            IN  IF name \notin DOMAIN urlspec.handler_class.attrs
                THEN /\ result' = Raise("AttributeError")
                     /\ UNCHANGED <<pc, params_method>>
                ELSE /\ pc' = "L122"
                     /\ params_method' =
                            [name |-> name, method |-> urlspec.handler_class.attrs[name]]
                     /\ UNCHANGED result
    /\ UNCHANGED <<call, urlspec_arg, operations_arg, urlspec, handler_class, operations,
                   todo, yielded, method>>

\* _extensions_from_handler without its assert
_extensions_from_handler_NoAssert(handler) ==
    [err |-> "", data |-> load_yaml_from_docstring(handler.doc)]

\* lines 94-101
_extensions_from_handler(handler) ==
    IF ~Truthy(handler.doc)
    THEN [err |-> "AssertionError", data |-> <<>>]
    ELSE [err |-> "", data |-> load_yaml_from_docstring(handler.doc)]

\* line 122
UpdateExtensions ==
    /\ call = "path_helper" /\ pc = "L122" /\ Running
    /\ LET ext == _extensions_from_handler(urlspec.handler_class)
       IN  IF ext.err # ""
           THEN result' = Raise(ext.err) /\ UNCHANGED <<pc, operations>>
           ELSE /\ pc' = "L123"
                /\ operations' = DictUpdate(operations, ext.data)
                /\ UNCHANGED result
    /\ UNCHANGED <<call, urlspec_arg, operations_arg, urlspec, handler_class, todo,
                   yielded, params_method, method>>

\* line 123
ReturnPath ==
    /\ call = "path_helper" /\ pc = "L123" /\ Running
    /\ method' = params_method.method
    /\ result' = tornadopath2openapi(urlspec, params_method.method)
    /\ pc' = IF result'.err # "" THEN "L86" ELSE "returned"
    /\ UNCHANGED <<call, urlspec_arg, operations_arg, urlspec, handler_class, operations,
                   todo, yielded, params_method>>

Next ==
    \/ CallPathHelper
    \/ CallTornadoPath2OpenAPI
    \/ CallOperationsFromMethods
    \/ AssertOperations
    \/ CoerceURLSpec
    \/ OperationsFromMethodsNext
    \/ OperationsFromMethodsDone
    \/ SelectParamsMethod
    \/ UpdateExtensions
    \/ ReturnPath

Spec == Init /\ [][Next]_vars

-----------------------------------------------------------------------------
(* Properties *)

\* tornadopath2openapi has run on urlspec and method, and result is its outcome
NormalizerRan ==
    \/ call = "tornadopath2openapi"
    \/ call = "path_helper" /\ pc \in {"L86", "returned"}

\* path_helper has ended, by a return or by an exception
HelperEnded == call = "path_helper" /\ ~Running

RECURSIVE Flatten(_)
Flatten(ss) == IF ss = <<>> THEN <<>> ELSE Head(ss) \o Flatten(Tail(ss))

\* tpl with its i-th slot, counted from 1, replaced by {name(i)}
Filled(tpl, name(_)) ==
    Flatten([j \in 1..Len(tpl) |->
                IF tpl[j] = Slot
                THEN <<"{", name(Count(SubSeq(tpl, 1, j), Slot)), "}">>
                ELSE <<tpl[j]>>])

TrimChars == {"/", "?", "*"}

\* r is p less its maximal trailing run of trim characters when p holds more
\* than one "/", and p itself otherwise
IsTrimOf(r, p) ==
    IF Count(p, "/") > 1
    THEN \E n \in 0..Len(p) :
            /\ r = SubSeq(p, 1, n)
            /\ \A i \in (n + 1)..Len(p) : p[i] \in TrimChars
            /\ n = 0 \/ p[n] \notin TrimChars
    ELSE r = p

\* the dict a docstring parses to
ClassData == load_yaml_from_docstring(urlspec.handler_class.doc)
MethodData(handler, v) == load_yaml_from_docstring(handler.attrs[v].doc)

YieldedVerbs == {yielded[i][1] : i \in 1..Len(yielded)}

HelloHandler ==
    HandlerClass(NoDoc, Method(YamlDoc(GreetingData), <<"self">>), Unimplemented, {})

\* C1 (as claimed): for the documented example - the tuple (r'/hello', HelloHandler),
\* HelloHandler documenting only get and having no class docstring, operations
\* initially empty - path_helper returns '/hello' and leaves operations equal to
\* exactly {get: <parsed description of get>}.
C1_DocumentedExample ==
    (/\ HelperEnded
     /\ urlspec_arg = URLSpecArg(FALSE, Pattern(<<"/", "hello">>, <<>>), HelloHandler)
     /\ operations_arg = OperationsArg(FALSE, <<>>))
    => /\ result = Return(<<"/", "hello">>)
       /\ operations = <<<<"get", AsNode(GreetingData)>>>>

\* C2 (as claimed): path_helper called with an empty operations mapping for a
\* handler none of whose verb methods has a parseable documentation block raises
\* APISpecError, and the operations mapping is still empty afterwards.
C2_EmptyOperationsError ==
    (/\ HelperEnded
     /\ operations_arg = OperationsArg(FALSE, <<>>)
     /\ DOMAIN urlspec_arg.handler.attrs = PATH_KEYS
     /\ \A v \in PATH_KEYS : MethodData(urlspec_arg.handler, v) = <<>>)
    => result.err = "APISpecError" /\ operations = <<>>

\* C3 (as claimed): after a successful path_helper call, for every verb whose
\* per-method description defines a top-level key K that the handler-level
\* metadata also defines, the description stored for that verb carries the
\* handler-level value of K.
C3_HandlerValueInsideVerb ==
    (call = "path_helper" /\ pc = "returned")
    => \A v \in YieldedVerbs : \A i \in 1..Len(ClassData) :
          LET K == ClassData[i][1]
          IN  HasKey(MethodData(urlspec.handler_class, v), K)
              => /\ HasKey(operations, v)
                 /\ NodeGet(Lookup(operations, v), K) = ClassData[i][2]

\* C3 (amended): after a successful path_helper call, every key K of the
\* handler-level metadata is a key of the operations mapping itself and carries
\* the handler-level value (replacing whatever was stored under K, a verb's whole
\* description included); the description stored for an extracted verb that is no
\* key of the handler-level metadata is the per-method description unchanged, so
\* a key K inside it keeps the per-method value.
C3_HandlerKeysAtTopLevel ==
    (call = "path_helper" /\ pc = "returned")
    => /\ \A i \in 1..Len(ClassData) :
            /\ HasKey(operations, ClassData[i][1])
            /\ Lookup(operations, ClassData[i][1]) = ClassData[i][2]
       /\ \A v \in YieldedVerbs :
            ~HasKey(ClassData, v)
            => /\ HasKey(operations, v)
               /\ Lookup(operations, v) = AsNode(MethodData(urlspec.handler_class, v))

\* C3 witness: a successful call where get's description and the class docstring
\* both define "tags"
C3_Witness ==
    /\ call = "path_helper" /\ pc = "returned"
    /\ HasKey(ClassData, "tags")
    /\ "get" \in YieldedVerbs
    /\ NodeGet(Lookup(operations, "get"), "tags") = Scalar("method")
    /\ Lookup(operations, "tags") = Scalar("handler")

\* C4 (as claimed): for every handler and every recognized verb,
\* _operations_from_methods yields an entry for the verb exactly when the handler
\* has that attribute and its docstring parses to a non-empty result, and no
\* handler makes the extraction raise.
C4_SkipsWithoutFailing ==
    call = "_operations_from_methods"
    => /\ result.err = ""
       /\ pc = "returned"
          => \A v \in PATH_KEYS :
                v \in YieldedVerbs
                <=> /\ v \in DOMAIN handler_class.attrs
                    /\ MethodData(handler_class, v) # <<>>

\* C4 (amended): for a handler that has every recognized verb as an attribute (as
\* every RequestHandler subclass has), _operations_from_methods runs to its end
\* without an error and yields a verb, once and with its parsed description,
\* exactly when the verb's docstring parses to a non-empty result (an absent or
\* empty docstring, or one without a metadata block, omits the verb); for a
\* handler that lacks a recognized verb attribute the extraction yields only
\* such entries and does not reach its end: it raises AttributeError.
C4_YieldsParsedOrAttributeError ==
    call = "_operations_from_methods"
    => /\ \A i \in 1..Len(yielded) :
            /\ yielded[i][1] \in DOMAIN handler_class.attrs
            /\ MethodData(handler_class, yielded[i][1]) # <<>>
            /\ yielded[i][2] = AsNode(MethodData(handler_class, yielded[i][1]))
            /\ \A j \in 1..Len(yielded) : yielded[j][1] = yielded[i][1] => j = i
       /\ pc = "returned"
          => /\ DOMAIN handler_class.attrs = PATH_KEYS
             /\ \A v \in PATH_KEYS : MethodData(handler_class, v) # <<>> => v \in YieldedVerbs
       /\ result.err # ""
          => /\ result.err = "AttributeError"
             /\ DOMAIN handler_class.attrs # PATH_KEYS
       /\ (DOMAIN handler_class.attrs # PATH_KEYS) => pc # "returned"

\* C4 witness: the extraction has ended for a handler whose get has a docstring
\* without a metadata block and whose post is documented: only post was yielded
C4_Witness ==
    /\ call = "_operations_from_methods" /\ pc = "returned"
    /\ handler_class.attrs["get"].doc = PlainDoc
    /\ YieldedVerbs = {"post"}

\* the representative method has been looked up (line 121 has run)
Selected == call = "path_helper" /\ pc \in {"L122", "L123", "L86", "returned"}

\* C5 (as claimed): for every caller-supplied operations mapping and every
\* handler, the key naming the representative method is the first verb yielded
\* by the Operation Extractor, and its lookup always resolves.
C5_FirstYieldedIsRepresentative ==
    /\ (Selected /\ yielded # <<>>) => params_method.name = yielded[1][1]
    /\ (call = "path_helper" /\ pc = "L119") => result.err # "AttributeError"

\* C5 (amended): the method handed to the Path Normalizer is the handler
\* attribute named by the first key of the operations mapping after extraction.
\* A key the caller supplied keeps its position when extraction updates it, so
\* for a non-empty caller-supplied mapping that key is the caller's first key
\* (the first verb yielded only for an empty one); when the handler has no
\* attribute of that name the lookup raises AttributeError and the Path
\* Normalizer is not run.
C5_FirstKeyIsRepresentative ==
    LET first == IF operations_arg.items # <<>> THEN operations_arg.items[1][1]
                 ELSE yielded[1][1]
    IN  /\ Selected
           => /\ params_method.name = first
              /\ Keys(operations)[1] = first
              /\ first \in DOMAIN urlspec.handler_class.attrs
              /\ params_method.method = urlspec.handler_class.attrs[first]
        /\ (call = "path_helper" /\ NormalizerRan)
           => method = urlspec.handler_class.attrs[first]
        /\ (call = "path_helper" /\ pc = "L119" /\ result.err = "AttributeError")
           => /\ first \notin DOMAIN urlspec.handler_class.attrs
              /\ method = NoMethod

\* C5 witness: the caller supplied {post: ...}, the extractor yielded get first,
\* and the method handed to the normalizer is post
C5_Witness ==
    /\ call = "path_helper" /\ pc = "returned"
    /\ Keys(operations_arg.items) = <<"post">>
    /\ yielded # <<>> /\ yielded[1][1] = "get"
    /\ params_method.name = "post"
    /\ method = urlspec.handler_class.attrs["post"]

\* the number of names tornadopath2openapi derives for urlspec and method
DerivedNames ==
    IF urlspec.groupindex # <<>> THEN Len(urlspec.groupindex)
    ELSE IF Len(method.params) = 0 THEN 0 ELSE Len(method.params) - 1

\* C6: for a pattern with n >= 1 capturing groups none of which is named, a
\* template with n slots and a method declaring (p0, p1, ..., pn),
\* tornadopath2openapi returns the template with its i-th slot replaced by {p_i},
\* i = 1..n, trimmed of its trailing characters.
C6_UnnamedGroupsFallback ==
    (/\ NormalizerRan
     /\ urlspec.groups >= 1
     /\ urlspec.groupindex = <<>>
     /\ Len(method.params) = urlspec.groups + 1)
    => /\ result.err = ""
       /\ IsTrimOf(result.path,
                   Filled(urlspec.path_tpl, LAMBDA i : method.params[i + 1]))

\* C6 witness: (self, user_id, post_id) over "/users/%s/posts/%s" gave
\* /users/{user_id}/posts/{post_id}
C6_Witness ==
    /\ NormalizerRan
    /\ urlspec.path_tpl = <<"/", "users", "/", Slot, "/", "posts", "/", Slot>>
    /\ urlspec.groupindex = <<>>
    /\ method.params = <<"self", "user_id", "post_id">>
    /\ result = Return(<<"/", "users", "/", "{", "user_id", "}", "/", "posts", "/",
                         "{", "post_id", "}">>)

\* the name groupindex gives group i
NameOfGroup(groupindex, i) ==
    groupindex[CHOOSE k \in 1..Len(groupindex) : groupindex[k][2] = i][1]

\* C7: for a pattern whose capturing groups are all named, tornadopath2openapi
\* fills the i-th slot with the name of group i, whatever the order in which the
\* name-to-index mapping enumerates its items and whatever the method's
\* parameters.
C7_NamedGroupsByIndex ==
    (/\ NormalizerRan
     /\ urlspec.groups >= 1
     /\ Len(urlspec.groupindex) = urlspec.groups)
    => /\ result.err = ""
       /\ IsTrimOf(result.path,
                   Filled(urlspec.path_tpl, LAMBDA i : NameOfGroup(urlspec.groupindex, i)))

\* C7 witness: the mapping enumerated as id:2, name:1 over "/items/%s/%s" gave
\* /items/{name}/{id}
C7_Witness ==
    /\ NormalizerRan
    /\ urlspec.path_tpl = <<"/", "items", "/", Slot, "/", Slot>>
    /\ urlspec.groupindex = <<<<"id", 2>>, <<"name", 1>>>>
    /\ result = Return(<<"/", "items", "/", "{", "name", "}", "/", "{", "id", "}">>)

\* C8: the path tornadopath2openapi returns is the substituted path (the raw
\* template when there are no groups) less its maximal trailing run of "/", "?"
\* and "*" when that path holds more than one "/", and that path unchanged when
\* it holds at most one.
C8_TrailingTrim ==
    (NormalizerRan /\ result.err = "")
    => LET path == SubstitutedPath(urlspec, method).path
       IN  /\ IsTrimOf(result.path, path)
           /\ Count(path, "/") > 1
              => result.path = <<>> \/ result.path[Len(result.path)] \notin TrimChars
           /\ Count(path, "/") <= 1 => result.path = path

\* C8 witness: /a/b/? was trimmed to /a/b
C8_Witness ==
    /\ NormalizerRan
    /\ urlspec.path_tpl = <<"/", "a", "/", "b", "/", "?">>
    /\ result = Return(<<"/", "a", "/", "b">>)

\* C9: for a pattern with at least one capturing group, whenever the number of
\* derived parameter names differs from the number of slots of the template,
\* tornadopath2openapi raises the error of the string formatting and returns no
\* path, and path_helper ends with that same error.
C9_MismatchRaisesTypeError ==
    (/\ NormalizerRan
     /\ urlspec.groups >= 1
     /\ DerivedNames # Count(urlspec.path_tpl, Slot))
    => /\ result = Raise("TypeError")
       /\ pc = "L86"

\* C9 witness: path_helper ended with the TypeError of a pattern that mixes a
\* named and an unnamed group
C9_Witness ==
    /\ call = "path_helper" /\ pc = "L86"
    /\ urlspec.groups = 2 /\ Len(urlspec.groupindex) = 1
    /\ result = Raise("TypeError")

====
